---- MODULE Spec2Model ----
(***************************************************************************)
(* Model of agent.py: the tool parse_email_tool (decode, input check, open *)
(* the container, read and normalise its fields, build the result) and the *)
(* SequentialAgent pipeline EmailProcessingPipeline that runs it first.    *)
(*                                                                         *)
(* Python values are tagged records: None, str, int, bytes, datetime.      *)
(* The base64 input is a str whose characters are kept as a sequence,      *)
(* because the decoder walks it character by character; every other text   *)
(* is a TLA+ string.  The container (extract_msg.Message) is an external   *)
(* library: what it returns for each attribute, or that it raises, is      *)
(* chosen when the code reads it.                                          *)
(***************************************************************************)
EXTENDS Naturals, Integers, Sequences, FiniteSets, TLC

VARIABLES pc, email_file_path, email_file_bytes_b64, email_file_bytes, msg,
          email_date_to_serialize, attachments_list, ret, exc, opened,
          open_resources, ran, state

\* pc                      position in parse_email_tool (lines 18-71)
\* email_file_path         the parameter (line 20)
\* email_file_bytes_b64    the parameter (line 21)
\* email_file_bytes        the decoded bytes (lines 27-30)
\* msg                     what the container returned for each attribute read
\* email_date_to_serialize the local of lines 46-51
\* attachments_list        the local of lines 53-57
\* ret                     the returned mapping, None until the call returns
\* exc                     the exception caught (lines 31, 70), None if none
\* opened                  the sources handed to extract_msg.Message, in order
\* open_resources          the stream, file and container objects still open
\* ran                     the sub-agents of the pipeline that have run, in order
\* state                   the shared state the parser agent stores into
vars == <<pc, email_file_path, email_file_bytes_b64, email_file_bytes, msg,
          email_date_to_serialize, attachments_list, ret, exc, opened,
          open_resources, ran, state>>

(* ------------------------------ bounds --------------------------------- *)
MaxB64Len == 4
MaxAtts == 2

(* --------------------------- Python values ----------------------------- *)
None == [t |-> "None"]
PyStr(s) == [t |-> "str", v |-> s]
PyInt(n) == [t |-> "int", n |-> n]
PyChars(cs) == [t |-> "str", chars |-> cs]
PyBytes(bs) == [t |-> "bytes", b |-> bs]
PyDateTime(y, mo, d, h, mi, s, us, off) ==
    [t |-> "datetime", year |-> y, month |-> mo, day |-> d, hour |-> h,
     minute |-> mi, second |-> s, microsecond |-> us, utcoffset |-> off]
NoTz == [tz |-> FALSE]
TzMinutes(m) == [tz |-> TRUE, minutes |-> m]
PyList(xs) == [t |-> "list", items |-> xs]
Unread == [t |-> "unread"]

\* bool(x): None, "", b"", 0 are false; every datetime is true.
Truthy(x) ==
    CASE x.t = "None" -> FALSE
      [] x.t = "str" -> IF "chars" \in DOMAIN x THEN x.chars # <<>> ELSE x.v # ""
      [] x.t = "bytes" -> x.b # <<>>
      [] x.t = "int" -> x.n # 0
      [] x.t = "list" -> x.items # <<>>
      [] OTHER -> TRUE

\* Decimal rendering of n, left-padded with zeros to at least w digits.
RECURSIVE ZeroPad(_, _)
ZeroPad(n, w) ==
    IF w <= 1 THEN ToString(n)
    ELSE IF n < 10 THEN "0" \o ZeroPad(n, w - 1)
    ELSE ZeroPad(n \div 10, w - 1) \o ToString(n % 10)

UtcOffsetText(off) ==
    IF ~off.tz THEN ""
    ELSE LET a == IF off.minutes < 0 THEN 0 - off.minutes ELSE off.minutes
         IN (IF off.minutes < 0 THEN "-" ELSE "+")
              \o ZeroPad(a \div 60, 2) \o ":" \o ZeroPad(a % 60, 2)

\* datetime.isoformat(): YYYY-MM-DDTHH:MM:SS[.ffffff][+HH:MM]
IsoFormat(d) ==
    ZeroPad(d.year, 4) \o "-" \o ZeroPad(d.month, 2) \o "-" \o ZeroPad(d.day, 2)
      \o "T" \o ZeroPad(d.hour, 2) \o ":" \o ZeroPad(d.minute, 2) \o ":"
      \o ZeroPad(d.second, 2)
      \o (IF d.microsecond # 0 THEN "." \o ZeroPad(d.microsecond, 6) ELSE "")
      \o UtcOffsetText(d.utcoffset)

\* str(x) for the values a container attribute can hold.
Str(x) ==
    CASE x.t = "str" -> x.v
      [] x.t = "int" -> ToString(x.n)
      [] x.t = "None" -> "None"
      [] x.t = "datetime" ->
           ZeroPad(x.year, 4) \o "-" \o ZeroPad(x.month, 2) \o "-"
             \o ZeroPad(x.day, 2) \o " " \o ZeroPad(x.hour, 2) \o ":"
             \o ZeroPad(x.minute, 2) \o ":" \o ZeroPad(x.second, 2)
             \o (IF x.microsecond # 0 THEN "." \o ZeroPad(x.microsecond, 6) ELSE "")
             \o UtcOffsetText(x.utcoffset)

(* ------------------------------ base64 --------------------------------- *)
\* Characters of the input alphabet: two base64 digits, the pad, a
\* character outside the base64 alphabet, and a non-ASCII character.
NonAscii == "U+00E9"
Alphabet == {"Q", "/", "=", "!", NonAscii}
B64Digit(c) == CASE c = "Q" -> 16 [] c = "/" -> 63 [] OTHER -> 64

RECURSIVE a2b_base64(_, _, _, _, _, _)
a2b_base64(s, i, quad_pos, leftchar, pads, out) ==
    IF i > Len(s) THEN
        IF quad_pos = 0 THEN [ok |-> TRUE, bytes |-> out]
        ELSE IF quad_pos = 1 THEN
            [ok |-> FALSE,
             err |-> "Invalid base64-encoded string: number of data characters ("
                       \o ToString((Len(out) \div 3) * 4 + 1)
                       \o ") cannot be 1 more than a multiple of 4"]
        ELSE [ok |-> FALSE, err |-> "Incorrect padding"]
    ELSE IF s[i] = "=" THEN
        IF quad_pos >= 2 /\ quad_pos + pads + 1 >= 4
        THEN [ok |-> TRUE, bytes |-> out]
        ELSE a2b_base64(s, i + 1, quad_pos, leftchar,
                        IF quad_pos >= 2 THEN pads + 1 ELSE pads, out)
    ELSE LET this_ch == B64Digit(s[i]) IN
        IF this_ch >= 64 THEN a2b_base64(s, i + 1, quad_pos, leftchar, pads, out)
        ELSE CASE quad_pos = 0 -> a2b_base64(s, i + 1, 1, this_ch, 0, out)
               [] quad_pos = 1 ->
                    a2b_base64(s, i + 1, 2, this_ch % 16, 0,
                               Append(out, (leftchar * 4 + this_ch \div 16) % 256))
               [] quad_pos = 2 ->
                    a2b_base64(s, i + 1, 3, this_ch % 4, 0,
                               Append(out, (leftchar * 16 + this_ch \div 4) % 256))
               [] quad_pos = 3 ->
                    a2b_base64(s, i + 1, 0, 0, 0,
                               Append(out, (leftchar * 64 + this_ch) % 256))

\* base64.b64decode(s) with its defaults (validate=False): a str is first
\* encoded as ASCII, then decoded leniently.
b64decode(s) ==
    IF \E i \in 1..Len(s) : s[i] = NonAscii
    THEN [ok |-> FALSE, err |-> "string argument should contain only ASCII characters"]
    ELSE a2b_base64(s, 1, 0, 0, 0, <<>>)

(* ----------------- what the container library can return -------------- *)
\* Sequences over S of length at most n.
SeqsUpTo(S, n) == UNION {[1..k -> S] : k \in 0..n}

DateTimes ==
    {PyDateTime(2024, 1, 2, 3, 4, 5, 0, NoTz),
     PyDateTime(2024, 12, 31, 23, 59, 59, 7, TzMinutes(0)),
     PyDateTime(987, 6, 5, 0, 0, 0, 0, TzMinutes(0 - 330))}
RawDate == PyStr("Tue, 2 Jan 2024 03:04:05 +0000")
DateValues == {None, PyStr(""), RawDate} \cup DateTimes

\* An attachment either has no longFilename attribute or has one holding
\* None, "" or a name.
NoLongFilename == [has |-> FALSE]
LongFilename(v) == [has |-> TRUE, longFilename |-> v]
AttKinds ==
    {NoLongFilename, LongFilename(None), LongFilename(PyStr("")),
     LongFilename(PyStr("invoice.pdf")), LongFilename(PyStr("logo.png"))}
AttachmentValues == {None} \cup {PyList(a) : a \in SeqsUpTo(AttKinds, MaxAtts)}

FieldValues == {None, PyStr(""), PyStr("Invoice #123"), PyInt(7)}

OpenErrors ==
    {"[Errno 2] No such file or directory: 'mail.msg'",
     "not an OLE2 structured storage file"}
ReadErrors == {"incomplete OLE stream"}

\* Smaller ranges, for the specifications that enumerate the inputs instead.
SomeDates == {None, RawDate}
SomeAttachments == {PyList(<<>>), PyList(<<LongFilename(PyStr("invoice.pdf"))>>)}
SomeFields == {None, PyStr("Invoice #123")}

(* ------------------------------ inputs --------------------------------- *)
Paths == {None, PyStr(""), PyStr("mail.msg")}
B64Inputs == {None} \cup {PyChars(s) : s \in SeqsUpTo(Alphabet, MaxB64Len)}
SomeB64Inputs ==
    {None, PyChars(<<>>), PyChars(<<"Q">>), PyChars(<<"Q", "/", "=", "=">>)}

(* --------------------------- parse_email_tool -------------------------- *)
Error(m) == [status |-> "error", message |-> m]
NoMsg ==
    [date |-> Unread, attachments |-> Unread, subject |-> Unread,
     body |-> Unread, sender |-> Unread, to |-> Unread]

DecodeFailedMessage(e) == "Failed to decode base64 content: " \o e
NoInputMessage == "No email file path or base64 content provided."
NoValidInputMessage == "No valid email input provided to parse."
ParseFailedMessage(e) == "Failed to parse email: " \o e

\* Lines 27-32: decode the byte content when it is supplied.
Decode ==
    /\ pc = "start"
    /\ IF Truthy(email_file_bytes_b64)
       THEN LET r == b64decode(email_file_bytes_b64.chars) IN
            IF r.ok
            THEN /\ email_file_bytes' = PyBytes(r.bytes)
                 /\ pc' = "decoded"
                 /\ UNCHANGED <<ret, exc>>
            ELSE /\ ret' = Error(DecodeFailedMessage(r.err))
                 /\ exc' = [at |-> "decode", text |-> r.err]
                 /\ pc' = "done"
                 /\ UNCHANGED email_file_bytes
       ELSE /\ pc' = "decoded"
            /\ UNCHANGED <<email_file_bytes, ret, exc>>
    /\ UNCHANGED <<email_file_path, email_file_bytes_b64, msg,
                   email_date_to_serialize, attachments_list, opened,
                   open_resources, ran, state>>

\* Mutant: tests the inputs against None instead of for emptiness.
CheckInput_IsNone ==
    /\ pc = "decoded"
    /\ IF email_file_bytes = None /\ email_file_path = None
       THEN /\ ret' = Error(NoInputMessage)
            /\ pc' = "done"
       ELSE /\ pc' = "try"
            /\ UNCHANGED ret
    /\ UNCHANGED <<email_file_path, email_file_bytes_b64, email_file_bytes, msg,
                   email_date_to_serialize, attachments_list, exc, opened,
                   open_resources, ran, state>>

\* Lines 34-35: neither usable bytes nor a path.
CheckInput ==
    /\ pc = "decoded"
    /\ IF ~Truthy(email_file_bytes) /\ ~Truthy(email_file_path)
       THEN /\ ret' = Error(NoInputMessage)
            /\ pc' = "done"
       ELSE /\ pc' = "try"
            /\ UNCHANGED ret
    /\ UNCHANGED <<email_file_path, email_file_bytes_b64, email_file_bytes, msg,
                   email_date_to_serialize, attachments_list, exc, opened,
                   open_resources, ran, state>>

\* Mutant: the error result carries what was normalised before the failure.
Raise_Partial(where, e) ==
    /\ exc' = [at |-> where, text |-> e]
    /\ ret' = [status |-> "error", message |-> ParseFailedMessage(e),
               date |-> email_date_to_serialize, attachments |-> attachments_list]
    /\ pc' = "done"

\* Mutant: the handler does not catch the exception, which leaves the call.
Raise_Escapes(where, e) ==
    /\ exc' = [at |-> where, text |-> e]
    /\ pc' = "raised"
    /\ UNCHANGED ret

\* Lines 70-71: any exception inside the try block becomes an error result.
Raise(where, e) ==
    /\ exc' = [at |-> where, text |-> e]
    /\ ret' = Error(ParseFailedMessage(e))
    /\ pc' = "done"

\* Mutant: the path is tried before the bytes.
Source_PathFirst(bytes, path) ==
    IF Truthy(path) THEN "path" ELSE IF Truthy(bytes) THEN "bytes" ELSE "none"

\* Which source lines 38-44 hand to extract_msg.Message.
Source(bytes, path) ==
    IF Truthy(bytes) THEN "bytes" ELSE IF Truthy(path) THEN "path" ELSE "none"

\* Lines 37-44: open the container from the bytes, else from the path.
OpenContainer(Errors) ==
    /\ pc = "try"
    /\ LET src == Source(email_file_bytes, email_file_path) IN
       IF src = "none"
       THEN /\ ret' = Error(NoValidInputMessage)
            /\ pc' = "done"
            /\ UNCHANGED <<exc, opened, open_resources>>
       ELSE /\ opened' = Append(opened, src)
            /\ \/ /\ pc' = "opened"
                  /\ open_resources' =
                       IF src = "bytes" THEN {"stream", "container"}
                       ELSE {"file", "container"}
                  /\ UNCHANGED <<ret, exc>>
               \/ /\ \E e \in Errors : Raise("open", e)
                  /\ open_resources' = IF src = "bytes" THEN {"stream"} ELSE {}
    /\ UNCHANGED <<email_file_path, email_file_bytes_b64, email_file_bytes, msg,
                   email_date_to_serialize, attachments_list, ran, state>>

\* Mutant: every date goes through str(), the isinstance branch is lost.
NormalizeDate_StrOnly(d) ==
    IF Truthy(d) THEN PyStr(Str(d)) ELSE None

\* Lines 46-51.
NormalizeDate(d) ==
    IF Truthy(d)
    THEN IF d.t = "datetime" THEN PyStr(IsoFormat(d)) ELSE PyStr(Str(d))
    ELSE None

ReadDate(Dates, Errors) ==
    /\ pc = "opened"
    /\ \/ \E d \in Dates :
            /\ msg' = [msg EXCEPT !.date = d]
            /\ email_date_to_serialize' = NormalizeDate(d)
            /\ pc' = "date"
            /\ UNCHANGED <<ret, exc>>
       \/ /\ \E e \in Errors : Raise("date", e)
          /\ UNCHANGED <<msg, email_date_to_serialize>>
    /\ UNCHANGED <<email_file_path, email_file_bytes_b64, email_file_bytes,
                   attachments_list, opened, open_resources, ran, state>>

\* Mutant: tests only that the attribute exists, not that it is non-empty.
RECURSIVE LongFilenames_HasOnly(_)
LongFilenames_HasOnly(atts) ==
    IF atts = <<>> THEN <<>>
    ELSE LET att == Head(atts) IN
         (IF att.has THEN <<Str(att.longFilename)>> ELSE <<>>)
           \o LongFilenames_HasOnly(Tail(atts))

\* Lines 55-57: the loop over the attachments.
RECURSIVE LongFilenames(_)
LongFilenames(atts) ==
    IF atts = <<>> THEN <<>>
    ELSE LET att == Head(atts) IN
         (IF att.has /\ Truthy(att.longFilename)
          THEN <<Str(att.longFilename)>> ELSE <<>>)
           \o LongFilenames(Tail(atts))

\* Lines 53-57.
NormalizeAttachments(a) ==
    IF Truthy(a) THEN LongFilenames(a.items) ELSE <<>>

ReadAttachments(Attachments, Errors) ==
    /\ pc = "date"
    /\ \/ \E a \in Attachments :
            /\ msg' = [msg EXCEPT !.attachments = a]
            /\ attachments_list' = NormalizeAttachments(a)
            /\ pc' = "attachments"
            /\ UNCHANGED <<ret, exc>>
       \/ /\ \E e \in Errors : Raise("attachments", e)
          /\ UNCHANGED <<msg, attachments_list>>
       \/ \E a \in Attachments, e \in Errors :
            /\ Truthy(a)
            /\ \E k \in 1..Len(a.items) :
                 /\ a.items[k].has
                 /\ attachments_list' = LongFilenames(SubSeq(a.items, 1, k - 1))
            /\ msg' = [msg EXCEPT !.attachments = a]
            /\ Raise("longFilename", e)
    /\ UNCHANGED <<email_file_path, email_file_bytes_b64, email_file_bytes,
                   email_date_to_serialize, opened, open_resources, ran, state>>

\* Mutant: str(x) if x is not None else None.
Text_NotNone(x) == IF x # None THEN PyStr(Str(x)) ELSE None

\* Lines 61-64: str(x) if x else None.
Text(x) == IF Truthy(x) THEN PyStr(Str(x)) ELSE None

FieldNames == <<"subject", "body", "sender", "to">>

\* The container's fields after the first k of subject, body, sender, to
\* were read as f[1..k].
WithFields(m, f, k) ==
    [m EXCEPT !.subject = IF k >= 1 THEN f[1] ELSE @,
              !.body = IF k >= 2 THEN f[2] ELSE @,
              !.sender = IF k >= 3 THEN f[3] ELSE @,
              !.to = IF k >= 4 THEN f[4] ELSE @]

\* Lines 59-67.
ParsedDict(m, date, attachments) ==
    [status |-> "success",
     subject |-> Text(m.subject),
     body |-> Text(m.body),
     sender |-> Text(m.sender),
     to |-> Text(m.to),
     date |-> date,
     attachments |-> attachments]

\* Lines 59-68: read subject, body, sender, to and return the result.
BuildResult(Fields, Errors) ==
    /\ pc = "attachments"
    /\ \/ \E f \in [1..4 -> Fields] :
            /\ msg' = WithFields(msg, f, 4)
            /\ ret' = ParsedDict(msg', email_date_to_serialize, attachments_list)
            /\ pc' = "done"
            /\ UNCHANGED exc
       \/ \E k \in 1..4 : \E f \in [1..(k - 1) -> Fields], e \in Errors :
            /\ msg' = WithFields(msg, f, k - 1)
            /\ Raise(FieldNames[k], e)
    /\ UNCHANGED <<email_file_path, email_file_bytes_b64, email_file_bytes,
                   email_date_to_serialize, attachments_list, opened,
                   open_resources, ran, state>>

(* ------------------------------ pipeline ------------------------------- *)
\* Lines 124-131.
SubAgents ==
    <<"initial_email_parser_agent", "email_classifier_agent",
      "email_summarizer_agent", "invoice_extractor_agent",
      "invoice_database_agent", "auto_response_agent">>

\* Lines 95-104: what the parser agent is instructed to store.
StoredState(r) ==
    IF r.status = "success"
    THEN [email_subject |-> r.subject, email_body |-> r.body,
          sender_email |-> r.sender, recipient_email |-> r.to,
          email_date |-> r.date, email_attachments |-> r.attachments]
    ELSE [parsing_status |-> r.status, parsing_message |-> r.message]

\* Step 0 of the pipeline ends: the tool has returned and the parser agent
\* stores what its instruction names.
InitialEmailParserAgent ==
    /\ pc = "done"
    /\ ran = <<>>
    /\ state' = StoredState(ret)
    /\ ran' = <<SubAgents[1]>>
    /\ UNCHANGED <<pc, email_file_path, email_file_bytes_b64, email_file_bytes,
                   msg, email_date_to_serialize, attachments_list, ret, exc,
                   opened, open_resources>>

\* Lines 121-135: the SequentialAgent runs the next sub-agent in order; the
\* sequence holds no condition on the state.
RunSubAgent ==
    /\ ran # <<>>
    /\ Len(ran) < Len(SubAgents)
    /\ ran' = Append(ran, SubAgents[Len(ran) + 1])
    /\ UNCHANGED <<pc, email_file_path, email_file_bytes_b64, email_file_bytes,
                   msg, email_date_to_serialize, attachments_list, ret, exc,
                   opened, open_resources, state>>

(* --------------------------- specifications ---------------------------- *)
InitCall(P, B) ==
    /\ pc = "start"
    /\ email_file_path \in P
    /\ email_file_bytes_b64 \in B
    /\ email_file_bytes = None
    /\ msg = NoMsg
    /\ email_date_to_serialize = None
    /\ attachments_list = <<>>
    /\ ret = None
    /\ exc = None
    /\ opened = <<>>
    /\ open_resources = {}
    /\ ran = <<>>
    /\ state = <<>>

\* One call of the tool; the container ranges over every value.
Init == InitCall(Paths, SomeB64Inputs)
Next ==
    \/ Decode
    \/ CheckInput
    \/ OpenContainer(OpenErrors)
    \/ ReadDate(DateValues, ReadErrors)
    \/ ReadAttachments(AttachmentValues, ReadErrors)
    \/ BuildResult(FieldValues, ReadErrors)
Spec == Init /\ [][Next]_vars

\* One call of the tool; the inputs range over every string.
InitInputs == InitCall(Paths, B64Inputs)
NextInputs ==
    \/ Decode
    \/ CheckInput
    \/ OpenContainer(OpenErrors)
    \/ ReadDate(SomeDates, ReadErrors)
    \/ ReadAttachments(SomeAttachments, ReadErrors)
    \/ BuildResult(SomeFields, ReadErrors)
SpecInputs == InitInputs /\ [][NextInputs]_vars

\* One run of the pipeline on an initial input.
InitPipeline == InitCall(Paths, SomeB64Inputs)
NextPipeline ==
    \/ Decode
    \/ CheckInput
    \/ OpenContainer(OpenErrors)
    \/ ReadDate(SomeDates, ReadErrors)
    \/ ReadAttachments(SomeAttachments, ReadErrors)
    \/ BuildResult(SomeFields, ReadErrors)
    \/ InitialEmailParserAgent
    \/ RunSubAgent
SpecPipeline == InitPipeline /\ [][NextPipeline]_vars

(* -------------------------------- claims ------------------------------- *)
Done == pc = "done"
Success == Done /\ ret.status = "success"
NonEmptyText(x) == x.t = "str" /\ x.v # ""

\* Well-formed base64 text (RFC 4648): base64 digits in groups of four, the
\* last group ending in at most two pads.
IsBase64Text(cs) ==
    /\ Len(cs) % 4 = 0
    /\ \A i \in 1..Len(cs) :
         \/ B64Digit(cs[i]) < 64
         \/ /\ cs[i] = "="
            /\ i >= Len(cs) - 1
            /\ i = Len(cs) - 1 => cs[Len(cs)] = "="

\* C1: a malformed base64 string given as email_file_bytes_b64 ends the call
\* with the decode-failure error, and the file path is not opened.
C1_MalformedIsDecodeError ==
    (Done /\ Truthy(email_file_bytes_b64)
       /\ ~IsBase64Text(email_file_bytes_b64.chars))
    => /\ exc # None
       /\ exc.at = "decode"
       /\ ret = Error(DecodeFailedMessage(exc.text))
       /\ opened = <<>>

\* C2: with neither input supplied (absent or empty) the call returns the
\* "No email file ..." error and no container is opened or read.
C2_NoInput ==
    (Done /\ ~Truthy(email_file_path) /\ ~Truthy(email_file_bytes_b64))
    => /\ ret = Error("No email file path or base64 content provided.")
       /\ opened = <<>>
       /\ msg = NoMsg
       /\ open_resources = {}

C2_Witness ==
    /\ Done
    /\ email_file_path = PyStr("")
    /\ email_file_bytes_b64 = PyChars(<<>>)
    /\ ret.status = "error"

\* C3: an exception while opening the container or reading any field ends
\* the call with exactly {status: "error", message: "Failed to parse
\* email: <text>"}, whatever was read before it.
C3_ParseFailure ==
    (Done /\ exc # None /\ exc.at # "decode")
    => /\ DOMAIN ret = {"status", "message"}
       /\ ret.status = "error"
       /\ ret.message = "Failed to parse email: " \o exc.text

C3_Witness ==
    /\ Done
    /\ exc # None
    /\ exc.at = "to"
    /\ msg.subject = PyStr("Invoice #123")
    /\ email_date_to_serialize # None
    /\ attachments_list # <<>>
    /\ email_file_bytes = None
    /\ ret.status = "error"

\* C4: every call proceeds until it returns, and what it returns is a success
\* mapping with the seven result keys or an error mapping with status and
\* message; the call is never left any other way.
C4_ReturnsMapping ==
    /\ pc \in {"start", "decoded", "try", "opened", "date", "attachments", "done"}
    /\ ~Done => ENABLED Next
    /\ Done =>
         \/ /\ ret.status = "success"
            /\ DOMAIN ret = {"status", "subject", "body", "sender", "to", "date",
                             "attachments"}
         \/ /\ ret.status = "error"
            /\ DOMAIN ret = {"status", "message"}

C4_Witness ==
    /\ Success
    /\ email_file_path = PyStr("mail.msg")
    /\ Truthy(email_file_bytes)

\* C5: when the call has returned, every resource it opened is released.
C5_ResourcesReleased == Done => open_resources = {}

\* C6: after the tool returned an error in the first stage no later stage of
\* the pipeline runs and no success key is in the shared state.
C6_HaltsOnError ==
    (Done /\ ret.status = "error")
    => /\ Len(ran) <= 1
       /\ DOMAIN state \cap {"email_subject", "email_body", "sender_email",
                             "recipient_email", "email_date", "email_attachments"}
            = {}

\* The attachments the container holds (none when it holds no list).
Items(m) == IF m.attachments.t = "list" THEN m.attachments.items ELSE <<>>
\* The positions whose attachment exposes a non-empty longFilename.
Named(a) ==
    {i \in 1..Len(a) :
       a[i].has /\ a[i].longFilename.t = "str" /\ a[i].longFilename.v # ""}

\* C7: in a success result the attachments are the longFilename texts of
\* the container's attachments that expose a non-empty one, in the
\* container's order; the others are omitted.
C7_Attachments ==
    Success =>
      LET a == Items(msg)
          r == ret.attachments
      IN /\ Len(r) = Cardinality(Named(a))
         /\ \A i \in Named(a) :
              r[Cardinality({j \in Named(a) : j <= i})] = a[i].longFilename.v

C7_Witness ==
    /\ Success
    /\ Items(msg) = <<LongFilename(PyStr("")), LongFilename(PyStr("logo.png"))>>
    /\ ret.attachments = <<"logo.png">>

\* The text expected for a container field holding x.
Present(x) == x # None /\ x # PyStr("")
TextOf(x) == IF x.t = "int" THEN PyStr(ToString(x.n)) ELSE x

\* C8: in a success result subject, body, sender, to and date are each None
\* or a non-empty text; each of subject, body, sender, to is None exactly
\* when the container's own field is absent or empty, and is otherwise that
\* field's text, whatever the other fields hold.
C8_OptionalFields ==
    Success =>
      /\ \A f \in {"subject", "body", "sender", "to", "date"} :
           ret[f] = None \/ NonEmptyText(ret[f])
      /\ \A f \in {"subject", "body", "sender", "to"} :
           ret[f] = IF Present(msg[f]) THEN TextOf(msg[f]) ELSE None

C8_Witness ==
    /\ Success
    /\ msg.subject = PyStr("")
    /\ msg.body = PyInt(7)
    /\ msg.sender = None
    /\ msg.to = PyStr("Invoice #123")
    /\ ret.subject = None
    /\ ret.body = PyStr("7")
    /\ ret.to = PyStr("Invoice #123")

\* C9: the date of a success result follows from the container's date
\* alone: None for no date, the ISO-8601 text for a date/time value, the
\* text itself for a raw textual date.
C9_Date ==
    Success =>
      /\ msg.date \in {None, PyStr("")} => ret.date = None
      /\ (msg.date.t = "str" /\ msg.date.v # "") => ret.date = msg.date
      /\ msg.date = PyDateTime(2024, 1, 2, 3, 4, 5, 0, NoTz)
           => ret.date = PyStr("2024-01-02T03:04:05")
      /\ msg.date = PyDateTime(2024, 12, 31, 23, 59, 59, 7, TzMinutes(0))
           => ret.date = PyStr("2024-12-31T23:59:59.000007+00:00")
      /\ msg.date = PyDateTime(987, 6, 5, 0, 0, 0, 0, TzMinutes(0 - 330))
           => ret.date = PyStr("0987-06-05T00:00:00-05:30")
      /\ ret.date = email_date_to_serialize

C9_Witness ==
    /\ Success
    /\ msg.date = PyDateTime(2024, 12, 31, 23, 59, 59, 7, TzMinutes(0))
    /\ ret.date = PyStr("2024-12-31T23:59:59.000007+00:00")
    /\ msg.subject = None

\* C10: a call opens at most one container, once: the decoded bytes when
\* they are non-empty, otherwise the path; with non-empty bytes the path is
\* never opened, also when opening or reading the bytes fails.
C10_OneOpen ==
    /\ Len(opened) <= 1
    /\ Truthy(email_file_bytes) => \A i \in 1..Len(opened) : opened[i] = "bytes"
    /\ (opened # <<>> /\ ~Truthy(email_file_bytes))
         => opened = <<"path">> /\ Truthy(email_file_path)
    /\ (Done /\ Truthy(email_file_bytes)) => opened = <<"bytes">>

C10_Witness ==
    /\ Done
    /\ Truthy(email_file_bytes)
    /\ Truthy(email_file_path)
    /\ exc # None
    /\ exc.at = "open"
    /\ opened = <<"bytes">>

====
